---- MODULE Spec2Model ----
(***************************************************************************)
(* Model of bazil's volume epoch clock and SyncSend (fs/fs.go).            *)
(*                                                                         *)
(* One Volume handle is shared by sync sessions (callers of SyncSend) and  *)
(* by mutators (callers of dirtyEpoch that afterwards commit a dirent      *)
(* with the clock they obtained).  The bolt database is modelled by the    *)
(* persisted epoch, the directory buckets (kept in key order, as bolt      *)
(* keeps them) and the peer bucket; a read transaction is a copy of the    *)
(* directory buckets taken when db.View begins.                            *)
(***************************************************************************)
EXTENDS Integers, Sequences, FiniteSets, TLC

\* ---------------------------------------------------------------- bounds
NSessions == 2
NMutators == 1
MaxTicks == 2
MaxNames == 1
MaxDepth == 2
MaxChildren == 2500
MaxVolumeIDs == 3

\* ------------------------------------------------------ program constants
maxBatch == 1000   \* const maxBatch
RootInode == 1     \* tokens.InodeRoot, the inode of v.root

Sessions == 1..NSessions
Mutators == (NSessions + 1)..(NSessions + NMutators)
Names == 1..MaxNames
NoOne == 0
NoTick == -1
LocalPub == "pub0"
VolNames == {"", "a", "b"}
VolumeIDs == 1..MaxVolumeIDs
NoCreate == [name |-> "", id |-> 0, err |-> "none", call |-> 0]

VARIABLES
    epoch,      \* v.epoch.ticks and v.epoch.dirty
    mu,         \* v.epoch.mu: NoOne or the session holding it
    persisted,  \* the epoch stored in the volume bucket
    writer,     \* bolt's writer lock: NoOne or the process in db.Update
    dirs,       \* directory buckets: inode -> entries in name order
    peers,      \* peer bucket, in ID order
    sync,       \* per session: the locals of its SyncSend call
    mut,        \* per mutator: position and the clock it obtained
    lastSeal,   \* history: value returned by the latest successful cleanEpoch
    prevSeal,   \* history: the successful return before that
    dirtiedSince, \* history: dirtyEpoch was called since that return
    names,      \* db.Volumes.names: volume name -> volume ID
    volumes,    \* db.Volumes.volumes: volume ID -> the volume's bucket
    created     \* history: the latest Create call and what it returned

volVars == <<names, volumes, created>>

vars == <<epoch, mu, persisted, writer, dirs, peers, sync, mut,
          lastSeal, prevSeal, dirtiedSince, names, volumes, created>>

\* ------------------------------------------------------------ epoch clock

\* db.Volume.NextEpoch: the persisted tick advanced by exactly one.
NextEpoch(p) == p + 1

initFromDBClean(p) == [ticks |-> p, dirty |-> FALSE]

\* Open + initFromDB: the handle starts dirty, ticks read from the database.
initFromDB(p) == [ticks |-> p, dirty |-> TRUE]

nextEpochKeepsDirty(ep, n) ==
    IF ~ep.dirty THEN ep ELSE [ticks |-> n, dirty |-> TRUE]

nextEpochKeepsTicks(ep, n) ==
    IF ~ep.dirty THEN ep ELSE [ticks |-> ep.ticks, dirty |-> FALSE]

\* Volume.nextEpoch, given the value n that vb.NextEpoch() returned.
nextEpoch(ep, n) ==
    IF ~ep.dirty THEN ep ELSE [ticks |-> n, dirty |-> FALSE]

\* Volume.dirtyEpoch: the state it leaves; it returns ep.ticks.
dirtyEpoch(ep) == [ticks |-> ep.ticks, dirty |-> TRUE]

\* Volume.cleanEpoch: the value returned with a nil error.
cleanEpochRet(ep) == ep.ticks

LockForgotten(holder, s) == holder

\* sync.Mutex.Lock by session s (the caller waits until the mutex is free).
Lock(holder, s) == s

UnlockForgotten(holder) == holder

\* sync.Mutex.Unlock.
Unlock(holder) == NoOne

\* ------------------------------------------------------ directory buckets

InodeOf(name) == name + RootInode

Entry(name, isDir, clock) ==
    [name |-> name, inode |-> InodeOf(name), isDir |-> isDir, clock |-> clock]

\* dirs.List(inode): the entries of a directory in key order.
List(d, inode) == IF inode \in DOMAIN d THEN d[inode] ELSE <<>>

\* dirs.Get(inode, seg): the matching entries (none: not found).
Get(d, inode, seg) == SelectSeq(List(d, inode), LAMBDA e : e.name = seg)

\* dirs.Put: insert or replace, keeping key order.
Put(L, e) ==
    SelectSeq(L, LAMBDA x : x.name < e.name) \o <<e>> \o
    SelectSeq(L, LAMBDA x : x.name > e.name)

splitPath(p) == <<Head(p), Tail(p)>>

\* The walk that stops at a file instead of looking segments up under it.
RECURSIVE WalkStopsAtFile(_, _, _, _)
WalkStopsAtFile(d, dirInode, dirDE, dirPath) ==
    IF dirPath = <<>> \/ (dirDE # <<>> /\ ~dirDE[1].isDir) THEN
        [err |-> FALSE, inode |-> dirInode,
         isRoot |-> dirDE = <<>>,
         isDir |-> IF dirDE = <<>> THEN TRUE ELSE dirDE[1].isDir]
    ELSE
        LET sp == splitPath(dirPath)
            de == Get(d, dirInode, sp[1])
        IN  IF de = <<>> THEN
                [err |-> TRUE, inode |-> dirInode, isRoot |-> FALSE,
                 isDir |-> FALSE]
            ELSE WalkStopsAtFile(d, de[1].inode, de, sp[2])

\* The path walk of SyncSend: [err, inode, isRoot, isDir] for the final entry.
RECURSIVE Walk(_, _, _, _)
Walk(d, dirInode, dirDE, dirPath) ==
    IF dirPath = <<>> THEN
        [err |-> FALSE, inode |-> dirInode,
         isRoot |-> dirDE = <<>>,
         isDir |-> IF dirDE = <<>> THEN TRUE ELSE dirDE[1].isDir]
    ELSE
        LET sp == splitPath(dirPath)
            de == Get(d, dirInode, sp[1])
        IN  IF de = <<>> THEN
                [err |-> TRUE, inode |-> dirInode, isRoot |-> FALSE,
                 isDir |-> FALSE]
            ELSE Walk(d, de[1].inode, de, sp[2])

Resolve(d, dirPath) == Walk(d, RootInode, <<>>, dirPath)

notDirAlwaysLists(r) == FALSE

\* dirDE != nil && dirDE.Dir == nil
notDir(r) == ~r.isRoot /\ ~r.isDir

\* ------------------------------------------------------------- messages

EmptyMsg == [peersNil |-> TRUE, peers |-> <<>>, children |-> <<>>,
             error |-> "none"]

NotADirectoryMsg == [EmptyMsg EXCEPT !.error = "NOT_A_DIRECTORY"]

\* The roster: entry 0 is the local key, then every peer of the cursor
\* that IsAllowed for the volume.
RECURSIVE RosterLoop(_, _, _)
RosterLoop(m, ps, i) ==
    IF i > Len(ps) THEN m
    ELSE IF ~ps[i].allowed THEN RosterLoop(m, ps, i + 1)
    ELSE RosterLoop([id \in DOMAIN m \cup {ps[i].id} |->
                        IF id = ps[i].id THEN ps[i].pub ELSE m[id]],
                    ps, i + 1)

RosterOfKnownPeers(ps) ==
    [id \in {0} \cup {ps[i].id : i \in 1..Len(ps)} |->
        IF id = 0 THEN LocalPub
        ELSE ps[CHOOSE i \in 1..Len(ps) : ps[i].id = id].pub]

Roster(ps) == RosterLoop([id \in {0} |-> LocalPub], ps, 1)

\* The public form of a stored dirent, with its clock.
WireDirent(e) == [name |-> e.name, isDir |-> e.isDir, clock |-> e.clock]

\* len(msg.Children) > maxBatch
flushDue(len) == len > maxBatch

finalDueChildrenOnly(msg) == Len(msg.children) > 0

\* len(msg.Children) > 0 || msg.Peers != nil
finalDue(msg) == Len(msg.children) > 0 \/ ~msg.peersNil

ResetKeepsChildren(msg) == [EmptyMsg EXCEPT !.children = msg.children]

ResetKeepsPeers(msg) == [msg EXCEPT !.children = <<>>]

\* msg.Reset()
Reset(msg) == EmptyMsg

\* ------------------------------------------------------------ initial state

IdleSync ==
    [pc |-> "idle", path |-> <<>>, locked |-> FALSE, sealed |-> NoTick,
     sealTx |-> FALSE, rtx |-> FALSE, snap |-> <<>>, dirInode |-> 0,
     msg |-> EmptyMsg, cursor |-> 0, sent |-> <<>>, kind |-> "none",
     err |-> "none", fault |-> FALSE, listed |-> FALSE]

IdleMut == [pc |-> "idle", t |-> NoTick, after |-> {}]

PeerIDs == {1, 2}

PeerBucket(allowed) ==
    [i \in 1..2 |-> [id |-> i, pub |-> IF i = 1 THEN "pub1" ELSE "pub2",
                     allowed |-> i \in allowed]]

Paths == UNION {[1..k -> Names] : k \in 0..MaxDepth}

InitCommon ==
    /\ epoch = initFromDB(persisted)
    /\ mu = NoOne
    /\ writer = NoOne
    /\ sync = [s \in Sessions |-> IdleSync]
    /\ mut = [m \in Mutators |-> IdleMut]
    /\ lastSeal = NoTick
    /\ prevSeal = NoTick
    /\ dirtiedSince = FALSE
    /\ names = <<>>
    /\ volumes = <<>>
    /\ created = NoCreate

\* A freshly created volume, opened; peer 1 is authorized, peer 2 is not.
Init ==
    /\ persisted = 0
    /\ InitCommon
    /\ dirs = [i \in 1..(MaxNames + 1) |-> <<>>]
    /\ peers = PeerBucket({1})

StreamSizes ==
    {0, 1, 2, maxBatch, maxBatch + 1, maxBatch + 2, 2 * maxBatch + 1,
     2 * maxBatch + 2, MaxChildren}

\* An opened volume whose root holds n children (entry 1 a file, entry 2 a
\* directory, and so on), under any authorization of the known peers.
InitStream ==
    /\ persisted \in 0..(MaxTicks - 1)
    /\ InitCommon
    /\ \E n \in StreamSizes :
          dirs = [i \in {RootInode} |->
                     [k \in 1..n |-> Entry(k, k % 2 = 0, 0)]]
    /\ \E allowed \in SUBSET PeerIDs : peers = PeerBucket(allowed)

\* -------------------------------------------------------------- SyncSend

Set(s, r) == [sync EXCEPT ![s] = r]

Sealed(s, tick) ==
    /\ lastSeal' = tick
    /\ prevSeal' = lastSeal
    /\ dirtiedSince' = FALSE

\* SyncSend up to and including v.epoch.mu.Lock().
SyncSend(s, p) ==
    /\ sync[s].pc = "idle"
    /\ mu = NoOne
    /\ mu' = Lock(mu, s)
    /\ sync' = Set(s, [IdleSync EXCEPT !.pc = "clean", !.path = p,
                                       !.locked = TRUE])
    /\ UNCHANGED <<epoch, persisted, writer, dirs, peers, mut,
                   lastSeal, prevSeal, dirtiedSince>>
    /\ UNCHANGED volVars

\* cleanEpoch: the fast path, or db.Update begins its write transaction.
CleanEpoch(s) ==
    /\ sync[s].pc = "clean"
    /\ IF ~epoch.dirty
       THEN /\ sync' = Set(s, [sync[s] EXCEPT !.pc = "view",
                                   !.sealed = cleanEpochRet(epoch)])
            /\ Sealed(s, cleanEpochRet(epoch))
            /\ UNCHANGED writer
       ELSE /\ writer = NoOne
            /\ writer' = s
            /\ sync' = Set(s, [sync[s] EXCEPT !.pc = "update",
                                              !.sealTx = TRUE])
            /\ UNCHANGED <<lastSeal, prevSeal, dirtiedSince>>
    /\ UNCHANGED <<epoch, mu, persisted, dirs, peers, mut>>
    /\ UNCHANGED volVars

\* cleanEpoch: the function inc runs inside the write transaction, then
\* db.Update commits.  vb.NextEpoch() may fail, and so may the commit.
Update(s) ==
    /\ sync[s].pc = "update"
    /\ writer' = NoOne
    /\ \/ \* vb.NextEpoch() fails: nextEpoch returns the error
          /\ epoch.dirty
          /\ sync' = Set(s, [sync[s] EXCEPT !.pc = "ret", !.err = "store",
                                            !.fault = TRUE])
          /\ UNCHANGED <<epoch, persisted, lastSeal, prevSeal, dirtiedSince>>
       \/ \* inc returns nil and the commit succeeds
          /\ persisted < MaxTicks
          /\ epoch' = nextEpoch(epoch, NextEpoch(persisted))
          /\ persisted' = IF epoch.dirty THEN NextEpoch(persisted)
                          ELSE persisted
          /\ sync' = Set(s, [sync[s] EXCEPT !.pc = "view",
                                 !.sealed = cleanEpochRet(epoch')])
          /\ Sealed(s, cleanEpochRet(epoch'))
       \/ \* inc returns nil and the commit fails: the write is rolled back
          /\ persisted < MaxTicks
          /\ epoch' = nextEpoch(epoch, NextEpoch(persisted))
          /\ sync' = Set(s, [sync[s] EXCEPT !.pc = "ret", !.err = "store",
                                            !.fault = TRUE])
          /\ UNCHANGED <<persisted, lastSeal, prevSeal, dirtiedSince>>
    /\ UNCHANGED <<mu, dirs, peers, mut>>
    /\ UNCHANGED volVars

\* db.View begins the read transaction (or fails to).
View(s) ==
    /\ sync[s].pc = "view"
    /\ \/ sync' = Set(s, [sync[s] EXCEPT !.pc = "callback", !.rtx = TRUE,
                                         !.snap = dirs])
       \/ sync' = Set(s, [sync[s] EXCEPT !.pc = "ret", !.err = "store",
                                         !.fault = TRUE])
    /\ UNCHANGED <<epoch, mu, persisted, writer, dirs, peers, mut,
                   lastSeal, prevSeal, dirtiedSince>>
    /\ UNCHANGED volVars

\* The callback up to the listing loop: unlock, walk the path, reject a
\* file with NOT_A_DIRECTORY, build the roster, open the cursor.
Callback(s) ==
    /\ sync[s].pc = "callback"
    /\ mu' = Unlock(mu)
    /\ LET me == [sync[s] EXCEPT !.locked = FALSE]
           r == Resolve(me.snap, me.path)
       IN  IF r.err THEN
               sync' = Set(s, [me EXCEPT !.pc = "ret", !.err = "notfound"])
           ELSE IF notDir(r) THEN
               sync' = Set(s, [me EXCEPT !.pc = "sink", !.kind = "notdir",
                                   !.msg = NotADirectoryMsg,
                                   !.sent = Append(@, NotADirectoryMsg)])
           ELSE
               sync' = Set(s, [me EXCEPT !.pc = "list", !.listed = TRUE,
                                   !.dirInode = r.inode, !.cursor = 0,
                                   !.msg = [EmptyMsg EXCEPT
                                               !.peersNil = FALSE,
                                               !.peers = Roster(peers)]])
    /\ UNCHANGED <<epoch, persisted, writer, dirs, peers, mut,
                   lastSeal, prevSeal, dirtiedSince>>
    /\ UNCHANGED volVars

\* The listing loop from cursor position c: item after item is appended
\* until the iteration j at which the flush test first holds, or until the
\* cursor is exhausted.
ListLoop(msg, L, c) ==
    LET rem == Len(L) - c
        due(j) == flushDue(Len(msg.children) + j)
        take(j) == [msg EXCEPT !.children =
                       @ \o [i \in 1..j |-> WireDirent(L[c + i])]]
    IN  IF \E j \in 1..rem : due(j) THEN
            LET j == CHOOSE j \in 1..rem :
                        due(j) /\ \A k \in 1..(j - 1) : ~due(k)
            IN  [msg |-> take(j), cursor |-> c + j, flush |-> TRUE]
        ELSE [msg |-> take(rem), cursor |-> c + rem, flush |-> FALSE]

\* The listing runs up to its next sink invocation: a flush inside the
\* loop, or the final message after it when due; else SyncSend is done.
ListNext(s) ==
    /\ sync[s].pc = "list"
    /\ LET me == sync[s]
           r == ListLoop(me.msg, List(me.snap, me.dirInode), me.cursor)
       IN  IF r.flush THEN
               sync' = Set(s, [me EXCEPT !.cursor = r.cursor, !.msg = r.msg,
                                  !.pc = "sink", !.kind = "batch",
                                  !.sent = Append(@, r.msg)])
           ELSE IF finalDue(r.msg) THEN
               sync' = Set(s, [me EXCEPT !.cursor = r.cursor, !.msg = r.msg,
                                  !.pc = "sink", !.kind = "final",
                                  !.sent = Append(@, r.msg)])
           ELSE
               sync' = Set(s, [me EXCEPT !.cursor = r.cursor, !.msg = r.msg,
                                  !.pc = "ret", !.err = "nil"])
    /\ UNCHANGED <<epoch, mu, persisted, writer, dirs, peers, mut,
                   lastSeal, prevSeal, dirtiedSince>>
    /\ UNCHANGED volVars

\* An iteration fails: item.Unmarshal, clocks.Get or MarshalBinary errs.
ReadError(s) ==
    /\ sync[s].pc = "list"
    /\ sync[s].cursor < Len(List(sync[s].snap, sync[s].dirInode))
    /\ sync' = Set(s, [sync[s] EXCEPT !.pc = "ret", !.err = "store",
                                      !.fault = TRUE])
    /\ UNCHANGED <<epoch, mu, persisted, writer, dirs, peers, mut,
                   lastSeal, prevSeal, dirtiedSince>>
    /\ UNCHANGED volVars

\* send(msg) returns and its failure is noted but not acted upon.
SinkReturnIgnoresFailure(s) ==
    /\ sync[s].pc = "sink"
    /\ \E failed \in BOOLEAN :
          IF sync[s].kind = "batch" THEN
              sync' = Set(s, [sync[s] EXCEPT !.pc = "list", !.msg = Reset(@),
                                             !.fault = failed])
          ELSE
              sync' = Set(s, [sync[s] EXCEPT !.pc = "ret", !.err = "nil",
                                             !.fault = failed])
    /\ UNCHANGED <<epoch, mu, persisted, writer, dirs, peers, mut,
                   lastSeal, prevSeal, dirtiedSince>>
    /\ UNCHANGED volVars

\* send(msg) returns: nil, or the sink's failure.
SinkReturn(s) ==
    /\ sync[s].pc = "sink"
    /\ \/ IF sync[s].kind = "batch" THEN
              sync' = Set(s, [sync[s] EXCEPT !.pc = "list",
                                             !.msg = Reset(@)])
          ELSE
              sync' = Set(s, [sync[s] EXCEPT !.pc = "ret", !.err = "nil"])
       \/ sync' = Set(s, [sync[s] EXCEPT !.pc = "ret", !.err = "sink",
                                         !.fault = TRUE])
    /\ UNCHANGED <<epoch, mu, persisted, writer, dirs, peers, mut,
                   lastSeal, prevSeal, dirtiedSince>>
    /\ UNCHANGED volVars

\* The deferred function unlocks without looking at locked.
ReturnAlwaysUnlocks(s) ==
    /\ sync[s].pc = "ret"
    /\ mu' = Unlock(mu)
    /\ sync' = Set(s, IdleSync)
    /\ mut' = [m \in Mutators |-> [mut[m] EXCEPT !.after = @ \ {s}]]
    /\ UNCHANGED <<epoch, persisted, writer, dirs, peers,
                   lastSeal, prevSeal, dirtiedSince>>
    /\ UNCHANGED volVars

\* db.View ends the read transaction, SyncSend returns sync[s].err and the
\* deferred function unlocks when locked is still set.
Return(s) ==
    /\ sync[s].pc = "ret"
    /\ mu' = IF sync[s].locked THEN Unlock(mu) ELSE mu
    /\ sync' = Set(s, IdleSync)
    /\ mut' = [m \in Mutators |-> [mut[m] EXCEPT !.after = @ \ {s}]]
    /\ UNCHANGED <<epoch, persisted, writer, dirs, peers,
                   lastSeal, prevSeal, dirtiedSince>>
    /\ UNCHANGED volVars

\* -------------------------------------------------------------- mutators

\* A mutating operation calls dirtyEpoch for its clock value.
MarkDirty(m) ==
    /\ mut[m].pc = "idle"
    /\ mu = NoOne
    /\ epoch' = dirtyEpoch(epoch)
    /\ mut' = [mut EXCEPT ![m] =
                  [pc |-> "marked", t |-> epoch.ticks,
                   after |-> {s \in Sessions : sync[s].sealed # NoTick}]]
    /\ dirtiedSince' = TRUE
    /\ UNCHANGED <<mu, persisted, writer, dirs, peers, sync,
                   lastSeal, prevSeal>>
    /\ UNCHANGED volVars

\* ... and commits a dirent of the root with that clock.
Commit(m, name, isDir) ==
    /\ mut[m].pc = "marked"
    /\ writer = NoOne
    /\ dirs' = [dirs EXCEPT ![RootInode] =
                   Put(@, Entry(name, isDir, mut[m].t))]
    /\ mut' = [mut EXCEPT ![m] = IdleMut]
    /\ UNCHANGED <<epoch, mu, persisted, writer, peers, sync,
                   lastSeal, prevSeal, dirtiedSince>>
    /\ UNCHANGED volVars

\* ------------------------------------------------------- db.Volumes.Create

createErrNoExistCheck(nm, name) ==
    IF name = "" THEN "ErrVolNameInvalid" ELSE "nil"

\* The two checks Create makes before it touches a bucket.
createErr(nm, name) ==
    IF name = "" THEN "ErrVolNameInvalid"
    ELSE IF name \in DOMAIN nm THEN "ErrVolNameExist"
    ELSE "nil"

\* b.names.Put(n, id[:])
PutName(nm, name, id) ==
    [n \in DOMAIN nm \cup {name} |-> IF n = name THEN id ELSE nm[n]]

\* b.volumes.CreateBucket(id[:]), the four sub-buckets and the "default"
\* storage entry.
CreateBucket(vs, id, storage) ==
    [i \in DOMAIN vs \cup {id} |->
        IF i = id
        THEN [buckets |-> {"dir", "inode", "snap", "storage"},
              storage |-> [default |-> storage]]
        ELSE vs[i]]

\* Create(name, storage, sharingKey) in the caller's write transaction.  id
\* is the draw of randomVolumeID that CreateBucket accepts: a draw that
\* collides goes back to the label random.  With ok false a bucket
\* operation fails after the checks, Create returns that error and the
\* transaction is rolled back.
Create(name, id, ok) ==
    /\ id \notin DOMAIN volumes
    /\ LET e == createErr(names, name)
       IN  IF e # "nil" THEN
               /\ created' = [name |-> name, id |-> 0, err |-> e,
                              call |-> 1 - created.call]
               /\ UNCHANGED <<names, volumes>>
           ELSE IF ~ok THEN
               /\ created' = [name |-> name, id |-> 0, err |-> "store",
                              call |-> 1 - created.call]
               /\ UNCHANGED <<names, volumes>>
           ELSE
               /\ volumes' = CreateBucket(volumes, id, "local")
               /\ names' = PutName(names, name, id)
               /\ created' = [name |-> name, id |-> id, err |-> "nil",
                              call |-> 1 - created.call]
    /\ UNCHANGED <<epoch, mu, persisted, writer, dirs, peers, sync, mut,
                   lastSeal, prevSeal, dirtiedSince>>

\* ------------------------------------------------------- specifications

SyncSteps(s) ==
    \/ CleanEpoch(s)
    \/ Update(s)
    \/ View(s)
    \/ Callback(s)
    \/ ListNext(s)
    \/ ReadError(s)
    \/ SinkReturn(s)
    \/ Return(s)

MutatorStep(m) ==
    \/ MarkDirty(m)
    \/ \E n \in Names, isDir \in BOOLEAN : Commit(m, n, isDir)

Next ==
    \/ \E s \in Sessions, p \in Paths : SyncSend(s, p)
    \/ \E s \in Sessions : SyncSteps(s)
    \/ \E m \in Mutators : MutatorStep(m)

Spec == Init /\ [][Next]_vars

\* One session streams a large directory; it is not called again once a
\* call has sealed.
NextStream ==
    \/ \E p \in Paths : lastSeal = NoTick /\ SyncSend(1, p)
    \/ SyncSteps(1)

SpecStream == InitStream /\ [][NextStream]_vars

\* The volume registry: Create is called again and again.
NextCreate ==
    \E name \in VolNames, id \in VolumeIDs, ok \in BOOLEAN :
        Create(name, id, ok)

SpecCreate == Init /\ [][NextCreate]_vars

\* ----------------------------------------------------------------- claims

\* The dirents a session can read in its snapshot view.
Visible(s) ==
    UNION {{sync[s].snap[i][k] : k \in 1..Len(sync[s].snap[i])} :
              i \in DOMAIN sync[s].snap}

\* C1: a SyncSend whose seal produced tick E never reads, in its snapshot
\* view, a dirent clock greater than E.
C1_NoClockAfterSeal ==
    \A s \in Sessions :
        sync[s].rtx => \A e \in Visible(s) : e.clock <= sync[s].sealed

\* C1 witness: a session reads a snapshot holding a dirent while the
\* database already holds a dirent stamped after that session's seal.
C1_Witness ==
    \E s \in Sessions :
        /\ sync[s].rtx
        /\ sync[s].pc = "list"
        /\ Visible(s) # {}
        /\ \E k \in 1..Len(dirs[RootInode]) :
              dirs[RootInode][k].clock > sync[s].sealed

\* C2: a mutation whose dirtyEpoch call comes after a sync's seal is stamped
\* with a clock strictly greater than every clock visible in that sync's
\* snapshot view.
C2_StampedAboveSnapshot ==
    \A m \in Mutators :
        mut[m].pc = "marked" =>
            \A s \in mut[m].after :
                sync[s].rtx => \A e \in Visible(s) : mut[m].t > e.clock

\* C3 as claimed: every tick returned by cleanEpoch is strictly greater than
\* the one returned before it.
C3_StrictlyIncreasing == prevSeal # NoTick => lastSeal > prevSeal

\* C3 amended: the ticks returned by cleanEpoch never decrease, and a
\* returned tick is never below the persisted tick.
C3_NonDecreasing ==
    /\ prevSeal # NoTick => lastSeal >= prevSeal
    /\ lastSeal # NoTick => lastSeal >= persisted

\* C3 witness: a later seal returned a greater tick than the one before.
C3_Witness == prevSeal # NoTick /\ lastSeal > prevSeal /\ ~dirtiedSince

\* C4: cleanEpoch called with no dirtyEpoch since its last successful return
\* returns the same tick, opens no write transaction and leaves the
\* persisted tick unchanged (also across two sessions).
C4_SealIdempotent ==
    [][\A s \in Sessions :
          (/\ sync[s].pc = "clean"
           /\ sync'[s].pc # "clean"
           /\ lastSeal # NoTick
           /\ ~dirtiedSince)
          => /\ sync'[s].pc = "view"
             /\ sync'[s].sealed = lastSeal
             /\ ~sync'[s].sealTx
             /\ writer' = writer
             /\ persisted' = persisted]_vars

\* C4 witness: two sessions in flight hold the same sealed tick, the second
\* obtained without a write transaction.
C4_Witness ==
    \E s1, s2 \in Sessions :
        /\ s1 # s2
        /\ sync[s1].sealed # NoTick
        /\ sync[s1].sealTx
        /\ sync[s2].sealed = sync[s1].sealed
        /\ ~sync[s2].sealTx
        /\ prevSeal = lastSeal

\* C5 as claimed: when the read transaction has just been opened, the
\* session does not hold the epoch mutex.
C5_UnlockedAtViewOpen ==
    \A s \in Sessions : sync[s].pc = "callback" => mu # s

\* C5 amended: the session holds the epoch mutex from the seal until the
\* read transaction is open, and has released it before it reads the
\* snapshot or invokes the sink.
C5_HeldUntilCallback ==
    \A s \in Sessions :
        /\ sync[s].pc \in {"clean", "update", "view", "callback"}
              => mu = s /\ sync[s].locked
        /\ sync[s].pc \in {"list", "sink"} => mu # s /\ ~sync[s].locked

\* C5 witness: a read transaction is open and its session holds the mutex.
C5_Witness ==
    \E s \in Sessions :
        sync[s].pc = "callback" /\ sync[s].rtx /\ mu = s

\* C6: while the sink is invoked the session holds neither the epoch mutex
\* nor a write transaction, and a dirtyEpoch call can complete when the
\* sessions are idle or blocked in the sink.
C6_SinkHoldsNothing ==
    /\ \A s \in Sessions :
          sync[s].pc = "sink" =>
              mu # s /\ ~sync[s].locked /\ writer # s
    /\ (\A s \in Sessions : sync[s].pc \in {"idle", "sink"}) =>
          \A m \in Mutators : mut[m].pc = "idle" => ENABLED MarkDirty(m)

\* C6 witness: a session is blocked in the sink with a child batch flushed
\* inside the listing loop.
C6_Witness ==
    \E s \in Sessions : sync[s].pc = "sink" /\ sync[s].kind = "batch"

Ceil(n, b) == (n + b - 1) \div b

Sizes(ms) == [i \in 1..Len(ms) |-> Len(ms[i].children)]

\* C7: every batch flushed before the end of the listing carries exactly
\* maxBatch children, N > 0 children give ceil(N / maxBatch) sink
\* invocations, and 2500 children give batches of 1000, 1000 and 500.
C7_BatchesOfMaxBatch ==
    \A s \in Sessions :
        LET me == sync[s]
            N == Len(List(me.snap, me.dirInode))
        IN  /\ me.pc = "sink" /\ me.kind = "batch"
                  => Len(me.msg.children) = maxBatch
            /\ me.pc = "ret" /\ me.err = "nil" /\ me.listed /\ N > 0
                  => Len(me.sent) = Ceil(N, maxBatch)
            /\ me.pc = "ret" /\ me.err = "nil" /\ me.listed /\ N = 2500
                  => Sizes(me.sent) = <<1000, 1000, 500>>

RECURSIVE Flatten(_)
Flatten(ms) ==
    IF ms = <<>> THEN <<>> ELSE Head(ms).children \o Flatten(Tail(ms))

\* C8: after a SyncSend that completed without error, the children of the
\* delivered messages, concatenated in delivery order, are the listing of
\* the directory in the snapshot view, in key order, each child once.
C8_ChildrenComplete ==
    \A s \in Sessions :
        LET me == sync[s]
            L == List(me.snap, me.dirInode)
            all == Flatten(me.sent)
        IN  me.pc = "ret" /\ me.err = "nil" /\ me.listed =>
                /\ all = [k \in 1..Len(L) |-> WireDirent(L[k])]
                /\ \A k \in 1..(Len(all) - 1) : all[k].name < all[k + 1].name

\* C8 witness: a completed listing of the largest directory, delivered in
\* several messages.
C8_Witness ==
    \E s \in Sessions :
        /\ sync[s].pc = "ret" /\ sync[s].err = "nil" /\ sync[s].listed
        /\ Len(sync[s].sent) > 1
        /\ Len(List(sync[s].snap, sync[s].dirInode)) = MaxChildren

\* C9: SyncSend on a directory without children invokes the sink exactly
\* once, with the roster (entry 0 the local key), no children and no error
\* code, and returns nil.
C9_EmptyDirectory ==
    \A s \in Sessions :
        LET me == sync[s]
        IN  me.listed /\ List(me.snap, me.dirInode) = <<>> =>
                /\ Len(me.sent) <= 1
                /\ me.pc = "ret" /\ ~me.fault =>
                      /\ me.err = "nil"
                      /\ Len(me.sent) = 1
                      /\ me.sent[1].children = <<>>
                      /\ me.sent[1].error = "none"
                      /\ ~me.sent[1].peersNil
                      /\ 0 \in DOMAIN me.sent[1].peers
                      /\ me.sent[1].peers[0] = LocalPub

\* C9 witness: the empty root of a volume without authorized peers was
\* synced: one message, whose roster is the local key alone.
C9_Witness ==
    \E s \in Sessions :
        /\ sync[s].pc = "ret" /\ sync[s].err = "nil" /\ sync[s].listed
        /\ sync[s].path = <<>>
        /\ sync[s].snap[RootInode] = <<>>
        /\ Len(sync[s].sent) = 1
        /\ sync[s].sent[1].peers = [id \in {0} |-> LocalPub]

\* C10: SyncSend on a non-root path whose final entry is a file invokes
\* the sink exactly once, with NOT_A_DIRECTORY and no children, lists
\* nothing, and returns nil when the sink accepts the message.
C10_NotADirectory ==
    \A s \in Sessions :
        LET me == sync[s]
            r == Resolve(me.snap, me.path)
        IN  /\ me.rtx
            /\ me.pc \in {"list", "sink", "ret"}
            /\ ~r.err /\ ~r.isRoot /\ ~r.isDir
            => /\ ~me.listed
               /\ Len(me.sent) = 1
               /\ me.sent[1].error = "NOT_A_DIRECTORY"
               /\ me.sent[1].children = <<>>
               /\ me.pc = "ret" /\ ~me.fault => me.err = "nil"

\* C10 witness: a sync of a path naming a file returned nil after one
\* NOT_A_DIRECTORY message.
C10_Witness ==
    \E s \in Sessions :
        /\ sync[s].pc = "ret" /\ sync[s].err = "nil" /\ ~sync[s].listed
        /\ sync[s].path # <<>>
        /\ sync[s].sent = <<NotADirectoryMsg>>

\* Some segment of path has no dirent under the inode reached so far,
\* starting from inode.
RECURSIVE MissingSegment(_, _, _)
MissingSegment(d, inode, path) ==
    /\ path # <<>>
    /\ LET de == Get(d, inode, Head(path))
       IN  \/ de = <<>>
           \/ MissingSegment(d, de[1].inode, Tail(path))

\* C11: when some segment of the path has no dirent under the current
\* parent inode (a segment looked up under the inode of a file included),
\* SyncSend returns the not-found error and never invokes the sink.
C11_NotFound ==
    \A s \in Sessions :
        LET me == sync[s]
        IN  /\ me.rtx
            /\ me.pc \in {"list", "sink", "ret"}
            /\ MissingSegment(me.snap, RootInode, me.path)
            => /\ me.pc = "ret"
               /\ me.err = "notfound"
               /\ me.sent = <<>>
               /\ ~me.listed

\* C11 witness: a sync returns not-found for a segment looked up under the
\* inode of a file.
C11_Witness ==
    \E s \in Sessions :
        /\ sync[s].pc = "ret" /\ sync[s].err = "notfound"
        /\ sync[s].sent = <<>>
        /\ Len(sync[s].path) = 2
        /\ Get(sync[s].snap, RootInode, sync[s].path[1]) # <<>>
        /\ ~Get(sync[s].snap, RootInode, sync[s].path[1])[1].isDir

\* The peers of the bucket that are authorized for the volume.
Authorized == {i \in 1..Len(peers) : peers[i].allowed}

\* C12: under every authorization of the known peers, a roster carried by
\* a message of SyncSend has exactly the keys 0 and the IDs of the
\* authorized peers; 0 maps to the local public key and each authorized
\* peer to its own key.
C12_RosterAuthorizedOnly ==
    \A s \in Sessions :
        \A k \in 1..Len(sync[s].sent) :
            LET msg == sync[s].sent[k]
            IN  ~msg.peersNil =>
                   /\ DOMAIN msg.peers =
                         {0} \cup {peers[i].id : i \in Authorized}
                   /\ msg.peers[0] = LocalPub
                   /\ \A i \in Authorized :
                         msg.peers[peers[i].id] = peers[i].pub

\* C12 witness: a roster was delivered that names an authorized peer while
\* another known peer is not authorized.
C12_Witness ==
    \E s \in Sessions :
        /\ Len(sync[s].sent) > 0
        /\ ~sync[s].sent[1].peersNil
        /\ Authorized # {}
        /\ Authorized # 1..Len(peers)
        /\ DOMAIN sync[s].sent[1].peers # {0}

\* C13: when an invocation of the sink fails (a mid-listing batch, the
\* final message or NOT_A_DIRECTORY), SyncSend invokes the sink no more,
\* goes to its return with that failure, and its next step ends the read
\* transaction and returns.
C13_SinkFailureStops ==
    [][\A s \in Sessions :
          /\ sync[s].pc = "sink" /\ sync'[s].fault
             => /\ sync'[s].pc = "ret"
                /\ sync'[s].err = "sink"
                /\ sync'[s].sent = sync[s].sent
          /\ sync[s].pc = "ret" /\ sync[s].err = "sink"
             /\ sync'[s] # sync[s]
             => /\ sync'[s].pc = "idle"
                /\ ~sync'[s].rtx
                /\ sync'[s].sent = <<>>]_vars

\* C13 witness: the sink failed on a mid-listing batch and SyncSend is
\* about to return that failure.
C13_Witness ==
    \E s \in Sessions :
        /\ sync[s].pc = "ret" /\ sync[s].err = "sink"
        /\ sync[s].kind = "batch"
        /\ sync[s].cursor < Len(List(sync[s].snap, sync[s].dirInode))

\* C14: Create with an empty name returns ErrVolNameInvalid, Create with a
\* name already in the name index returns ErrVolNameExist, both leave the
\* name index and the volume buckets as they were; and no Create changes
\* the volume ID a name already maps to, so a name has one ID at most.
C14_CreateRejects ==
    [][created' # created =>
          /\ created'.name = "" => created'.err = "ErrVolNameInvalid"
          /\ created'.name # "" /\ created'.name \in DOMAIN names
                => created'.err = "ErrVolNameExist"
          /\ created'.err \in {"ErrVolNameInvalid", "ErrVolNameExist"}
                => names' = names /\ volumes' = volumes
          /\ \A n \in DOMAIN names :
                n \in DOMAIN names' /\ names'[n] = names[n]
          /\ \A n \in DOMAIN names' : names'[n] \in DOMAIN volumes']_vars

\* C14 witness: with two volumes created, a Create of an existing name was
\* rejected.
C14_Witness ==
    /\ created.err = "ErrVolNameExist"
    /\ created.name \in DOMAIN names
    /\ Cardinality(DOMAIN names) = 2
    /\ Cardinality(DOMAIN volumes) = 2

\* C15: while a sync sealed at E holds its snapshot view, every committed
\* mutation of the root whose clock (the value its dirtyEpoch returned) is
\* below E is visible in that view.
C15_AllBelowSealVisible ==
    \A s \in Sessions :
        sync[s].rtx =>
            \A k \in 1..Len(dirs[RootInode]) :
                dirs[RootInode][k].clock < sync[s].sealed
                    => dirs[RootInode][k] \in Visible(s)

\* C16: in a SyncSend that reached the listing, the first message
\* delivered carries the roster and no later one does, and every message
\* delivered carries a roster or a child: no empty message trails a
\* listing that ended at a flush.
C16_RosterFirstOnly ==
    \A s \in Sessions :
        sync[s].listed =>
            \A k \in 1..Len(sync[s].sent) :
                LET msg == sync[s].sent[k]
                IN  /\ ~msg.peersNil <=> k = 1
                    /\ ~msg.peersNil \/ Len(msg.children) > 0

\* C16 witness: a listing of 2 * maxBatch + 2 children ended exactly at its
\* second flush and SyncSend returned nil after two messages.
C16_Witness ==
    \E s \in Sessions :
        /\ sync[s].pc = "ret" /\ sync[s].err = "nil" /\ sync[s].listed
        /\ Len(List(sync[s].snap, sync[s].dirInode)) = 2 * maxBatch + 2
        /\ Len(sync[s].sent) = 2
        /\ sync[s].sent[2].peersNil
        /\ sync[s].msg = EmptyMsg

\* The epoch state of a handle as Open returns it.
Opened == epoch.dirty /\ epoch.ticks = persisted

\* C17: the handle Open returns is dirty with its cached tick equal to the
\* persisted one; a cleanEpoch called in that state takes no fast path,
\* and when it returns a tick it has advanced the persisted tick by one
\* and returns it, above the tick persisted before Open.
C17_FirstSealAdvances ==
    /\ Opened
    /\ [][\A s \in Sessions :
             Opened =>
                /\ sync[s].pc = "clean" /\ sync'[s] # sync[s]
                   => sync'[s].pc = "update" /\ sync'[s].sealed = NoTick
                /\ sync[s].pc = "update" /\ sync'[s].sealed # NoTick
                   => /\ persisted' = persisted + 1
                      /\ sync'[s].sealed = persisted'
                      /\ sync'[s].sealed > persisted]_vars

\* C17 witness: a volume opened at persisted tick 1 and never dirtied has
\* been sealed at 2 by its first SyncSend.
C17_Witness ==
    \E s \in Sessions :
        /\ sync[s].pc = "view" /\ sync[s].sealTx
        /\ sync[s].sealed = 2 /\ persisted = 2
        /\ prevSeal = NoTick

\* C18: the cached tick never exceeds the persisted tick, and when
\* cleanEpoch's write transaction has failed (vb.NextEpoch failed or the
\* commit failed) the epoch state is as before the call: still dirty, the
\* cached tick equal to the persisted one.
C18_FailedSealChangesNothing ==
    /\ epoch.ticks <= persisted
    /\ \A s \in Sessions :
          /\ sync[s].pc = "ret" /\ sync[s].sealTx
          /\ sync[s].sealed = NoTick /\ sync[s].locked
          => epoch.dirty /\ epoch.ticks = persisted

\* C19: the epoch mutex is held by a session exactly while its locked
\* flag is set: the callback's Unlock finds it held, the deferred Unlock
\* runs only when the callback did not, nothing is unlocked that another
\* session holds, and a session that has returned holds nothing.
C19_UnlockedExactlyOnce ==
    \A s \in Sessions :
        /\ mu = s <=> sync[s].locked
        /\ sync[s].pc \in {"clean", "update", "view", "callback"}
              => sync[s].locked
        /\ sync[s].pc \in {"idle", "list", "sink"} => ~sync[s].locked
        /\ sync[s].pc = "ret" =>
              (sync[s].locked <=> ~sync[s].rtx)

\* C19 witness: a session whose callback has unlocked is about to return
\* while another session holds the mutex.
C19_Witness ==
    \E s, t \in Sessions :
        /\ s # t
        /\ sync[s].pc = "ret" /\ sync[s].rtx /\ ~sync[s].locked
        /\ sync[t].locked /\ mu = t

====
